---- MODULE Spec2Model ----
(***************************************************************************)
(* Covid19_Analysis: the data pipeline of src/data_loader.py               *)
(* (download -> load -> preprocess -> merge) and the queries of            *)
(* src/analysis.py, as state machines.                                     *)
(*                                                                         *)
(* Data frames are sequences of records (row order is the frame's order).  *)
(* Floating-point cells that can be missing or infinite are tagged values: *)
(* Num(x), NaN, Inf.  Percentages rounded to 2 decimals are held in        *)
(* hundredths of a percent (33.33 is Num(3333)); a rolling mean is the     *)
(* fraction Frac(sum, count).  The Lat/Long and Province/State columns,    *)
(* which no computation below reads, are left out of the rows.             *)
(***************************************************************************)
EXTENDS Integers, Sequences, FiniteSets, TLC

VARIABLES
    pc,              \* position of the loader pipeline / which call returned
    data,            \* load_data's result: metric -> raw wide-format table
    dirExists,       \* ../data/processed/ exists on disk
    files,           \* files written under ../data/processed/
    save_processed,  \* the flag preprocess_data was called with
    processed,       \* preprocess_data's result: metric -> long-format table
    merged,          \* get_merged_data's result
    adata,           \* CovidAnalysis.data
    query,           \* the last analysis call and its arguments
    result,          \* the frame that call returned
    country_data,    \* argument of calculate_growth_rates
    growth,          \* the frame calculate_growth_rates returned
    responses,       \* download_data: what requests.get does for each file
    dl_i,            \* download_data: index of the next file of the loop
    attempted,       \* download_data: files requests.get was called for
    written,         \* download_data: files written to data_dir
    dl_pc            \* download_data: "loop", "returned" or "raised"

vars == <<pc, data, dirExists, files, save_processed, processed, merged,
          adata, query, result, country_data, growth,
          responses, dl_i, attempted, written, dl_pc>>

loaderVars   == <<pc, data, dirExists, files, save_processed, processed, merged>>
analysisVars == <<adata, query, result>>
growthVars   == <<country_data, growth>>
downloadVars == <<responses, dl_i, attempted, written, dl_pc>>

(***************************************************************************)
(* Bounds of the model.                                                    *)
(***************************************************************************)
MaxCases == 2      \* raw cell values are 0..MaxCases
MaxRows  == 2      \* rows of a raw table with sub-locations

None == <<>>     \* Python's None

Metrics == {"confirmed", "deaths", "recovered"}

Countries == <<"A", "B", "C", "D", "E", "F">>   \* in ascending name order

CountryRank(c) == CHOOSE i \in 1..Len(Countries) : Countries[i] = c

\* Date headers of the raw files, month/day/2-digit year: "12/31/20", "1/1/21".
H1 == <<12, 31, 20>>
H2 == <<1, 1, 21>>

(***************************************************************************)
(* Tagged floating-point cells.                                            *)
(***************************************************************************)
Num(x) == [k |-> "num", v |-> x]
NaN    == [k |-> "nan", v |-> 0]
Inf    == [k |-> "inf", v |-> 0]
NegInf == [k |-> "-inf", v |-> 0]

IsNum(x) == x.k = "num"

\* a - b on floats: NaN propagates
FSub(a, b) == IF IsNum(a) /\ IsNum(b) THEN Num(a.v - b.v) ELSE NaN

\* n/d rounded to the nearest integer, halves to the even neighbour (d > 0)
RoundHalfEven(n, d) ==
    LET q == n \div d
        r == n - q * d
    IN  IF 2 * r < d THEN q
        ELSE IF 2 * r > d THEN q + 1
        ELSE IF q % 2 = 0 THEN q ELSE q + 1

\* (a / b * 100).round(2), in hundredths: x/0 is inf, 0/0 is NaN
PercentOf(a, b) ==
    IF ~IsNum(a) \/ ~IsNum(b) THEN NaN
    ELSE IF b.v = 0
         THEN (IF a.v = 0 THEN NaN ELSE IF a.v > 0 THEN Inf ELSE NegInf)
         ELSE Num(RoundHalfEven(a.v * 10000, b.v))

\* fillna(0) on one cell: only NaN is filled
FillNa(x) == IF x.k = "nan" THEN Num(0) ELSE x

(***************************************************************************)
(* preprocess_data: melt, to_datetime, groupby(...).agg(sum)               *)
(***************************************************************************)
IsLeap(yy) == yy % 4 = 0      \* years 2000..2099

DaysBeforeMonth(m, yy) ==
    LET cum == <<0, 31, 59, 90, 120, 151, 181, 212, 243, 273, 304, 334>>
    IN  cum[m] + (IF m > 2 /\ IsLeap(yy) THEN 1 ELSE 0)

\* pd.to_datetime of a header m/d/yy: the day number counted from 2000-01-01
to_datetime(h) ==
    LET m == h[1]  d == h[2]  yy == h[3]
    IN  365 * yy + ((yy + 3) \div 4) + DaysBeforeMonth(m, yy) + (d - 1)

\* df.melt: one row per (raw row, date column), column by column
RECURSIVE MeltFrom(_, _)
MeltFrom(df, j) ==
    IF j > Len(df.columns) THEN <<>>
    ELSE [i \in 1..Len(df.rows) |->
             [Country |-> df.rows[i].Country,
              Date    |-> to_datetime(df.columns[j]),
              Cases   |-> df.rows[i].Cases[j]]]
         \o MeltFrom(df, j + 1)

melt(df) == MeltFrom(df, 1)

KeyOf(r) == <<r.Country, r.Date>>

KeyLess(a, b) ==
    \/ CountryRank(a[1]) < CountryRank(b[1])
    \/ a[1] = b[1] /\ a[2] < b[2]

KeysOf(t) == {KeyOf(t[i]) : i \in 1..Len(t)}

RECURSIVE SortKeys(_)
SortKeys(S) ==
    IF S = {} THEN <<>>
    ELSE LET m == CHOOSE x \in S : \A y \in S : y = x \/ KeyLess(x, y)
         IN  <<m>> \o SortKeys(S \ {m})

\* mutant of SumCases: the group's first value in place of its sum
RECURSIVE FirstCases(_, _, _)
FirstCases(t, key, i) ==
    IF i > Len(t) THEN 0
    ELSE IF KeyOf(t[i]) = key THEN t[i].Cases ELSE FirstCases(t, key, i + 1)

RECURSIVE SumCases(_, _, _)
SumCases(t, key, i) ==
    IF i > Len(t) THEN 0
    ELSE (IF KeyOf(t[i]) = key THEN t[i].Cases ELSE 0) + SumCases(t, key, i + 1)

\* groupby(["Country/Region", "Date"]).agg({"Cases": "sum"}).reset_index():
\* one row per key, keys ascending, the group's cases summed
GroupBySum(melted) ==
    LET keys == SortKeys(KeysOf(melted))
    IN  [n \in 1..Len(keys) |->
            [Country |-> keys[n][1],
             Date    |-> keys[n][2],
             Cases   |-> SumCases(melted, keys[n], 1)]]

PreprocessTable(df) == GroupBySum(melt(df))

preprocess_data(d) == [m \in DOMAIN d |-> PreprocessTable(d[m])]

(***************************************************************************)
(* get_merged_data                                                         *)
(***************************************************************************)
\* the Cases cells of the rows of `right` whose key is `key`, in row order
RECURSIVE MatchesFrom(_, _, _)
MatchesFrom(right, key, i) ==
    IF i > Len(right) THEN <<>>
    ELSE (IF KeyOf(right[i]) = key THEN <<Num(right[i].Cases)>> ELSE <<>>)
         \o MatchesFrom(right, key, i + 1)

\* mutant of JoinRow: how="inner", a left row with no match yields nothing
JoinRowInner(row, right, col) ==
    LET ms == MatchesFrom(right, KeyOf(row), 1)
    IN  [n \in 1..Len(ms) |-> [c \in {col} |-> ms[n]] @@ row]

\* the rows a left row yields in a how="left" merge: one per matching right
\* row, or one with a missing cell when nothing matches
JoinRow(row, right, col) ==
    LET ms == MatchesFrom(right, KeyOf(row), 1)
    IN  IF ms = <<>> THEN <<[c \in {col} |-> NaN] @@ row>>
        ELSE [n \in 1..Len(ms) |-> [c \in {col} |-> ms[n]] @@ row]

\* left.merge(right[[keys, col]], on=keys, how="left"): left order is kept
RECURSIVE LeftMergeFrom(_, _, _, _)
LeftMergeFrom(left, right, col, i) ==
    IF i > Len(left) THEN <<>>
    ELSE JoinRow(left[i], right, col) \o LeftMergeFrom(left, right, col, i + 1)

LeftMerge(left, right, col) == LeftMergeFrom(left, right, col, 1)

\* processed_data["confirmed"].rename(columns={"Cases": "Confirmed"})
RenameConfirmed(t) ==
    [i \in 1..Len(t) |->
        [Country |-> t[i].Country, Date |-> t[i].Date, Confirmed |-> t[i].Cases]]

\* merged["Active"] = merged["Confirmed"] - merged["Deaths"] - merged["Recovered"]
ActiveOf(r) == FSub(FSub(Num(r.Confirmed), r.Deaths), r.Recovered)

\* (merged["Deaths"] / merged["Confirmed"] * 100).round(2)
DeathRateOf(r) == PercentOf(r.Deaths, Num(r.Confirmed))

\* (merged["Recovered"] / merged["Confirmed"] * 100).round(2)
RecoveryRateOf(r) == PercentOf(r.Recovered, Num(r.Confirmed))

\* the three derived columns, computed on the joined row as it is (lines 103-107)
Derive(r) ==
    [Active        |-> ActiveOf(r),
     Death_Rate    |-> DeathRateOf(r),
     Recovery_Rate |-> RecoveryRateOf(r)] @@ r

\* merged.fillna(0, inplace=True) on one row (line 110)
FillRow(r) ==
    [Country       |-> r.Country,
     Date          |-> r.Date,
     Confirmed     |-> r.Confirmed,
     Deaths        |-> FillNa(r.Deaths),
     Recovered     |-> FillNa(r.Recovered),
     Active        |-> FillNa(r.Active),
     Death_Rate    |-> FillNa(r.Death_Rate),
     Recovery_Rate |-> FillNa(r.Recovery_Rate)]

\* the frame get_merged_data builds (lines 87-110)
MergeFrame(p) ==
    LET joined == LeftMerge(LeftMerge(RenameConfirmed(p["confirmed"]),
                                      p["deaths"], "Deaths"),
                            p["recovered"], "Recovered")
    IN  [i \in 1..Len(joined) |-> FillRow(Derive(joined[i]))]

MergedFile == "merged_covid_data.csv"

ProcessedFile(m) ==
    CASE m = "confirmed" -> "confirmed_processed.csv"
      [] m = "deaths"    -> "deaths_processed.csv"
      [] m = "recovered" -> "recovered_processed.csv"

(***************************************************************************)
(* Inputs of the loader pipeline                                           *)
(***************************************************************************)
MaxSubCases == 1   \* cell values of the tables with sub-location rows

RawRows(countries, ncols, maxv) ==
    [Country : countries, Cases : [1..ncols -> 0..maxv]]

SeqsUpTo(S, n) == UNION {[1..k -> S] : k \in 1..n}

\* tables whose countries are split over several sub-location rows
RichTables ==
    UNION {{[columns |-> cols, rows |-> rs] :
               rs \in SeqsUpTo(RawRows({"A", "B"}, Len(cols), MaxSubCases), MaxRows)} :
           cols \in {<<H1>>, <<H2>>, <<H1, H2>>}}

\* tables with one row per country
SmallTables ==
    {[columns |-> <<h>>, rows |-> rs] :
        h \in {H1, H2},
        rs \in {<<>>}
               \cup {<<r>> : r \in RawRows({"A", "B"}, 1, MaxCases)}
               \cup {<<a, b>> : a \in RawRows({"A"}, 1, MaxCases),
                                b \in RawRows({"B"}, 1, MaxCases)}}
    \cup
    {[columns |-> <<H1, H2>>, rows |-> <<r>>] :
        r \in RawRows({"A", "B"}, 2, MaxCases)}

RecoveredTables ==
    {[columns |-> <<H1>>, rows |-> rs] :
        rs \in {<<>>} \cup {<<r>> : r \in RawRows({"A"}, 1, MaxCases)}}

\* load_data found one metric's file only (the others are omitted)
PartialData(x, t) == [m \in {x} |-> t]

\* load_data found the three files
FullData(c, d, r) ==
    [m \in Metrics |-> IF m = "confirmed" THEN c
                       ELSE IF m = "deaths" THEN d ELSE r]

(***************************************************************************)
(* The loader pipeline                                                     *)
(***************************************************************************)
InitRest ==
    /\ adata = None /\ query = None /\ result = None
    /\ country_data = None /\ growth = None
    /\ responses = None /\ dl_i = 0 /\ attempted = {} /\ written = {}
    /\ dl_pc = "idle"

Init ==
    /\ pc = "loaded"
    /\ \/ \E x \in Metrics, t \in RichTables : data = PartialData(x, t)
       \/ \E c \in SmallTables, d \in SmallTables, r \in RecoveredTables :
              data = FullData(c, d, r)
    /\ dirExists \in BOOLEAN
    /\ files = {}
    /\ save_processed = FALSE
    /\ processed = None
    /\ merged = None
    /\ InitRest

\* preprocess_data(data, save_processed=save)
Preprocess(save) ==
    /\ pc = "loaded"
    /\ processed' = preprocess_data(data)
    /\ save_processed' = save
    /\ IF save /\ DOMAIN data # {}
       THEN /\ dirExists' = TRUE
            /\ files' = files \cup {ProcessedFile(m) : m \in DOMAIN data}
       ELSE UNCHANGED <<dirExists, files>>
    /\ pc' = "preprocessed"
    /\ UNCHANGED <<data, merged>>
    /\ UNCHANGED <<analysisVars, growthVars, downloadVars>>

\* get_merged_data(processed): processed_data[...] raises KeyError for a
\* metric that is not there; to_csv raises OSError when the directory is not
\* there, and then nothing is returned
GetMergedData ==
    /\ pc = "preprocessed"
    /\ IF ~(Metrics \subseteq DOMAIN processed)
       THEN /\ pc' = "KeyError"
            /\ UNCHANGED <<merged, files>>
       ELSE IF ~dirExists
       THEN /\ pc' = "OSError"
            /\ UNCHANGED <<merged, files>>
       ELSE /\ pc' = "merged"
            /\ merged' = MergeFrame(processed)
            /\ files' = files \cup {MergedFile}
    /\ UNCHANGED <<data, dirExists, save_processed, processed>>
    /\ UNCHANGED <<analysisVars, growthVars, downloadVars>>

Next == (\E save \in BOOLEAN : Preprocess(save)) \/ GetMergedData

Spec == Init /\ [][Next]_vars

(***************************************************************************)
(* CovidAnalysis: the top-N queries                                        *)
(***************************************************************************)
\* an optional argument: <<>> is Python's None, <<x>> a given value
Some(x) == <<x>>

\* the order of float cells; NaN cells come after every other
FGeq(a, b) ==
    \/ b.k = "nan"
    \/ a.k = "inf" /\ b.k # "nan"
    \/ b.k = "-inf" /\ a.k # "nan"
    \/ IsNum(a) /\ IsNum(b) /\ a.v >= b.v

\* mutant of MaxDate: the first date of the data in place of the last
MinDate(df) ==
    CHOOSE d \in {df[i].Date : i \in 1..Len(df)} :
        \A i \in 1..Len(df) : df[i].Date >= d

\* self.data["Date"].max()
RECURSIVE MaxDateFrom(_, _)
MaxDateFrom(df, i) ==
    IF i = Len(df) THEN df[i].Date
    ELSE LET rest == MaxDateFrom(df, i + 1)
         IN  IF df[i].Date > rest THEN df[i].Date ELSE rest

MaxDate(df) == MaxDateFrom(df, 1)

\* if latest_date is None: latest_date = self.data["Date"].max()
DateOrLatest(df, latest_date) ==
    IF latest_date = None THEN MaxDate(df) ELSE latest_date[1]

\* the cell of a row in a numeric column, as a float cell
CellOf(r, col) == IF col = "Confirmed" THEN Num(r.Confirmed) ELSE r[col]

\* self.data[self.data["Date"] == latest_date]: the rows of the date, in order
RECURSIVE AtDateFrom(_, _, _)
AtDateFrom(df, date, i) ==
    IF i > Len(df) THEN <<>>
    ELSE (IF df[i].Date = date THEN <<df[i]>> ELSE <<>>) \o AtDateFrom(df, date, i + 1)

AtDate(df, date) == AtDateFrom(df, date, 1)

\* mutant of AtLeastMinCases: > in place of >=
AboveMinCases(r, min_cases) == r.Confirmed > min_cases

\* latest_data["Confirmed"] >= min_cases
AtLeastMinCases(r, min_cases) == r.Confirmed >= min_cases

\* latest_data[latest_data["Confirmed"] >= min_cases]
RECURSIVE WithMinCasesFrom(_, _, _)
WithMinCasesFrom(df, min_cases, i) ==
    IF i > Len(df) THEN <<>>
    ELSE (IF AtLeastMinCases(df[i], min_cases) THEN <<df[i]>> ELSE <<>>)
         \o WithMinCasesFrom(df, min_cases, i + 1)

WithMinCases(df, min_cases) == WithMinCasesFrom(df, min_cases, 1)

\* the first row, among those of `left`, that no other row of `left` exceeds
FirstLargest(df, col, left) ==
    CHOOSE i \in left :
        /\ \A j \in left : FGeq(CellOf(df[i], col), CellOf(df[j], col))
        /\ \A j \in left : (FGeq(CellOf(df[j], col), CellOf(df[i], col)) => i <= j)

\* df.nlargest(n, col) with keep="first": the n rows of greatest value in
\* descending order, rows of equal value in the frame's row order
RECURSIVE NLargestFrom(_, _, _, _)
NLargestFrom(df, col, n, left) ==
    IF n <= 0 \/ left = {} THEN <<>>
    ELSE <<df[FirstLargest(df, col, left)]>>
         \o NLargestFrom(df, col, n - 1, left \ {FirstLargest(df, col, left)})

NLargest(df, col, n) == NLargestFrom(df, col, n, 1..Len(df))

\* frame[[columns]]
Project(df, cols) == [i \in 1..Len(df) |-> [c \in cols |-> df[i][c]]]

get_top_countries_by_cases(df, n, latest_date) ==
    Project(NLargest(AtDate(df, DateOrLatest(df, latest_date)), "Confirmed", n),
            {"Country", "Confirmed", "Deaths", "Recovered", "Death_Rate"})

get_top_countries_by_death_rate(df, n, min_cases, latest_date) ==
    Project(NLargest(WithMinCases(AtDate(df, DateOrLatest(df, latest_date)),
                                  min_cases),
                     "Death_Rate", n),
            {"Country", "Confirmed", "Deaths", "Death_Rate"})

(***************************************************************************)
(* Inputs of the analysis: merged frames of three countries and two dates  *)
(***************************************************************************)
MaxValue == 2     \* cell values of the analysis frames are 0..MaxValue

WideTable(cols, countries, cases) ==
    [columns |-> cols,
     rows    |-> [i \in 1..Len(countries) |->
                     [Country |-> countries[i], Cases |-> cases[i]]]]

EmptyTable == [columns |-> <<H1, H2>>, rows |-> <<>>]

\* confirmed and deaths of A, B, C at H2 vary; at H1 every country has the
\* same confirmed count (none, or the most) and no deaths
AnalysisData(e, c, d) ==
    [confirmed |-> WideTable(<<H1, H2>>, <<"A", "B", "C">>,
                             [i \in 1..3 |-> <<e, c[i]>>]),
     deaths    |-> WideTable(<<H1, H2>>, <<"A", "B", "C">>,
                             [i \in 1..3 |-> <<0, d[i]>>]),
     recovered |-> EmptyTable]

\* A=1000, B=500, C=2000, D=300, E=100, F=50 at the latest date
ExampleData ==
    [confirmed |-> WideTable(<<H1, H2>>, Countries,
                             <<<<0, 1000>>, <<0, 500>>, <<0, 2000>>,
                               <<0, 300>>, <<0, 100>>, <<0, 50>>>>),
     deaths    |-> EmptyTable,
     recovered |-> EmptyTable]

ExampleFrame == MergeFrame(preprocess_data(ExampleData))

RowsAtDate(df, d) == {i \in 1..Len(df) : df[i].Date = d}

\* n runs up to one more than the number of rows a date can have
NArgs(df) == 0..(Cardinality(RowsAtDate(df, MaxDate(df))) + 1)

DateArgs == {None, Some(to_datetime(H1))}

InitAnalysis ==
    /\ \/ \E e \in {0, MaxValue} :
             \E c \in [1..3 -> 0..MaxValue], d \in [1..3 -> 0..MaxValue] :
                 adata = MergeFrame(preprocess_data(AnalysisData(e, c, d)))
       \/ adata = ExampleFrame
    /\ query = None
    /\ result = None
    /\ pc = "idle" /\ data = None /\ dirExists = FALSE /\ files = {}
    /\ save_processed = FALSE /\ processed = None /\ merged = None
    /\ country_data = None /\ growth = None
    /\ responses = None /\ dl_i = 0 /\ attempted = {} /\ written = {}
    /\ dl_pc = "idle"

TopByCases(n, latest_date) ==
    /\ query = None
    /\ query' = [op |-> "cases", n |-> n, min_cases |-> 0,
                 latest_date |-> latest_date]
    /\ result' = get_top_countries_by_cases(adata, n, latest_date)
    /\ UNCHANGED <<adata, loaderVars, growthVars, downloadVars>>

TopByDeathRate(n, min_cases, latest_date) ==
    /\ query = None
    /\ query' = [op |-> "death_rate", n |-> n, min_cases |-> min_cases,
                 latest_date |-> latest_date]
    /\ result' = get_top_countries_by_death_rate(adata, n, min_cases, latest_date)
    /\ UNCHANGED <<adata, loaderVars, growthVars, downloadVars>>

NextAnalysis ==
    \/ \E n \in NArgs(adata), ld \in DateArgs : TopByCases(n, ld)
    \/ \E n \in NArgs(adata), mc \in 0..(MaxValue + 1), ld \in DateArgs :
           TopByDeathRate(n, mc, ld)

SpecAnalysis == InitAnalysis /\ [][NextAnalysis]_vars

(***************************************************************************)
(* Properties of the loader pipeline                                       *)
(***************************************************************************)
RECURSIVE SumSeq(_)
SumSeq(q) == IF q = <<>> THEN 0 ELSE Head(q) + SumSeq(Tail(q))

ColumnTotal(df, j) == SumSeq([i \in 1..Len(df.rows) |-> df.rows[i].Cases[j]])

CountryColumnTotal(df, c, j) ==
    SumSeq([i \in 1..Len(df.rows) |->
               IF df.rows[i].Country = c THEN df.rows[i].Cases[j] ELSE 0])

DateTotal(t, d) ==
    SumSeq([i \in 1..Len(t) |-> IF t[i].Date = d THEN t[i].Cases ELSE 0])

CountriesOf(df) == {df.rows[i].Country : i \in 1..Len(df.rows)}

RowsAt(t, key) == {i \in 1..Len(t) : KeyOf(t[i]) = key}

\* C1: every record get_merged_data returns has
\* Active = Confirmed - Deaths - Recovered on the values stored in it,
\* also when the deaths or the recovered row is missing (counted as 0).
C1_ActiveIsConfirmedMinusDeathsMinusRecovered ==
    pc = "merged" =>
        \A i \in 1..Len(merged) :
            merged[i].Active =
                Num(merged[i].Confirmed - merged[i].Deaths.v - merged[i].Recovered.v)

\* C2: every record get_merged_data returns with Confirmed = 0 has
\* Death_Rate = 0 and Recovery_Rate = 0, whatever Deaths and Recovered are.
C2_ZeroConfirmedGivesZeroRates ==
    pc = "merged" =>
        \A i \in 1..Len(merged) :
            merged[i].Confirmed = 0 =>
                /\ merged[i].Death_Rate = Num(0)
                /\ merged[i].Recovery_Rate = Num(0)

\* C3: the keys of the records get_merged_data returns are the keys of the
\* reshaped confirmed table, one record per key: keys that only deaths or
\* recovered have are dropped, and a key without a deaths (recovered) row
\* has Deaths (Recovered) = 0.
C3_MergedKeysAreConfirmedKeys ==
    pc = "merged" =>
        /\ KeysOf(merged) = KeysOf(processed["confirmed"])
        /\ \A key \in KeysOf(processed["confirmed"]) :
               Cardinality(RowsAt(merged, key)) = 1
        /\ \A i \in 1..Len(merged) :
               /\ KeyOf(merged[i]) \notin KeysOf(processed["deaths"])
                      => merged[i].Deaths = Num(0)
               /\ KeyOf(merged[i]) \notin KeysOf(processed["recovered"])
                      => merged[i].Recovered = Num(0)

\* a merge where deaths has a key confirmed lacks, and confirmed has one key
\* that deaths has and one that deaths lacks
C3_Witness ==
    /\ pc = "merged"
    /\ Len(merged) = 2
    /\ KeysOf(processed["deaths"]) \ KeysOf(processed["confirmed"]) # {}
    /\ KeysOf(processed["confirmed"]) \cap KeysOf(processed["deaths"]) # {}
    /\ KeysOf(processed["confirmed"]) \ KeysOf(processed["deaths"]) # {}

\* C4: for every raw table given to preprocess_data and every date column
\* of it, the reshaped Cases at that date summed over the countries equal
\* the column's raw values summed over all rows, and each country has one
\* record at that date, holding the sum of the country's rows.
C4_ConservationUnderAggregation ==
    pc # "loaded" =>
        \A m \in DOMAIN data :
            \A j \in 1..Len(data[m].columns) :
                LET df == data[m]
                    t  == processed[m]
                    d  == to_datetime(df.columns[j])
                IN  /\ DateTotal(t, d) = ColumnTotal(df, j)
                    /\ \A c \in CountriesOf(df) :
                           /\ Cardinality(RowsAt(t, <<c, d>>)) = 1
                           /\ \A i \in RowsAt(t, <<c, d>>) :
                                  t[i].Cases = CountryColumnTotal(df, c, j)

\* two sub-location rows of one country, non-zero in two date columns
C4_Witness ==
    /\ pc = "preprocessed"
    /\ \E m \in DOMAIN data :
          /\ Len(data[m].columns) = 2
          /\ Len(data[m].rows) = 2
          /\ data[m].rows[1].Country = data[m].rows[2].Country
          /\ \A i \in 1..2, j \in 1..2 : data[m].rows[i].Cases[j] > 0
          /\ Len(processed[m]) = 2

\* C10: get_merged_data returns the merged set for every three-metric input
\* whatever was persisted before, and writes the merged file only when
\* persistence was requested.
C10_MergedReturnedRegardlessOfPersistence ==
    /\ pc \in {"merged", "OSError"} => pc = "merged"
    /\ pc = "merged" => (MergedFile \in files => save_processed)

(***************************************************************************)
(* Properties of the top-N queries                                         *)
(***************************************************************************)
Min(a, b) == IF a <= b THEN a ELSE b

\* the greatest date of the frame
LatestDateOf(df) ==
    CHOOSE d \in {df[i].Date : i \in 1..Len(df)} :
        \A i \in 1..Len(df) : df[i].Date <= d

\* the date a query ran at
QueryDate == IF query.latest_date = None THEN LatestDateOf(adata)
             ELSE query.latest_date[1]

\* the row of the data, at the query's date, a result row was taken from
SourceRow(k) ==
    CHOOSE i \in RowsAtDate(adata, QueryDate) : adata[i].Country = result[k].Country

\* result row k is a row of `from`, cut down to the columns `cols`
TakenFrom(k, from, cols) ==
    /\ \E i \in from : adata[i].Country = result[k].Country
    /\ SourceRow(k) \in from
    /\ \A c \in cols : result[k][c] = adata[SourceRow(k)][c]

Returned == {SourceRow(k) : k \in 1..Len(result)}

\* C5: get_top_countries_by_cases(n) with no date given takes the records at
\* the greatest Date of the whole dataset and returns min(n, their number)
\* of them, those of greatest Confirmed, in descending order of Confirmed,
\* records of equal Confirmed in the dataset's row order; the example
\* A=1000, B=500, C=2000, D=300, E=100, F=50 with n=5 gives [C, A, B, D, E].
C5_TopByCasesAtLatestDate ==
    (query # None /\ query.op = "cases" /\ query.latest_date = None) =>
        LET at == RowsAtDate(adata, LatestDateOf(adata))
        IN  /\ Len(result) = Min(query.n, Cardinality(at))
            /\ \A k \in 1..Len(result) :
                   TakenFrom(k, at, {"Country", "Confirmed", "Deaths",
                                     "Recovered", "Death_Rate"})
            /\ \A k, l \in 1..Len(result) :
                   k < l =>
                       /\ result[k].Confirmed >= result[l].Confirmed
                       /\ SourceRow(k) # SourceRow(l)
                       /\ result[k].Confirmed = result[l].Confirmed
                              => SourceRow(k) < SourceRow(l)
            /\ \A i \in at \ Returned :
                   \A k \in 1..Len(result) :
                       /\ result[k].Confirmed >= adata[i].Confirmed
                       /\ result[k].Confirmed = adata[i].Confirmed
                              => SourceRow(k) < i
            /\ (adata = ExampleFrame /\ query.n = 5) =>
                   [k \in 1..Len(result) |-> result[k].Country]
                       = <<"C", "A", "B", "D", "E">>

\* the example of the claim, answered
C5_Witness ==
    /\ adata = ExampleFrame
    /\ query # None /\ query.op = "cases" /\ query.latest_date = None
    /\ query.n = 5
    /\ Len(result) = 5
    /\ result[1].Country = "C" /\ result[1].Confirmed = 2000

\* C6: every record get_top_countries_by_death_rate(n, min_cases) returns is
\* a record at the chosen date with Confirmed >= min_cases, and the result
\* holds the n greatest Death_Rate values among exactly those records: a
\* record with Confirmed = min_cases - 1 is never returned, one with
\* Confirmed = min_cases is eligible.
C6_TopByDeathRateAmongMinCases ==
    (query # None /\ query.op = "death_rate") =>
        LET eligible == {i \in RowsAtDate(adata, QueryDate) :
                            adata[i].Confirmed >= query.min_cases}
        IN  /\ Len(result) = Min(query.n, Cardinality(eligible))
            /\ \A k \in 1..Len(result) :
                   /\ TakenFrom(k, eligible,
                                {"Country", "Confirmed", "Deaths", "Death_Rate"})
                   /\ result[k].Confirmed # query.min_cases - 1
            /\ \A k, l \in 1..Len(result) :
                   k < l => /\ SourceRow(k) # SourceRow(l)
                            /\ FGeq(result[k].Death_Rate, result[l].Death_Rate)
            /\ \A i \in eligible \ Returned :
                   \A k \in 1..Len(result) :
                       FGeq(result[k].Death_Rate, adata[i].Death_Rate)

\* a record one case short of min_cases has the highest death rate and is
\* left out, while a record with exactly min_cases is returned
C6_Witness ==
    /\ query # None /\ query.op = "death_rate"
    /\ Len(result) >= 1
    /\ \E k \in 1..Len(result) : result[k].Confirmed = query.min_cases
    /\ \E i \in RowsAtDate(adata, QueryDate) :
          /\ adata[i].Confirmed = query.min_cases - 1
          /\ \A k \in 1..Len(result) :
                 /\ result[k].Country # adata[i].Country
                 /\ ~FGeq(result[k].Death_Rate, adata[i].Death_Rate)

(***************************************************************************)
(* CovidAnalysis.calculate_growth_rates                                    *)
(***************************************************************************)
Window == 7      \* rolling(window=7)

\* a rolling mean: the sum of the window's values over their number
Frac(n, d) == [k |-> "num", n |-> n, d |-> d]
FracNaN    == [k |-> "nan", n |-> 0, d |-> 1]

\* a row put into a frame that is in date order, after the rows of its date
RECURSIVE InsertByDate(_, _)
InsertByDate(row, sorted) ==
    IF sorted = <<>> THEN <<row>>
    ELSE IF row.Date < Head(sorted).Date THEN <<row>> \o sorted
    ELSE <<Head(sorted)>> \o InsertByDate(row, Tail(sorted))

\* df.sort_values("Date"): ascending, rows of one date in their order
RECURSIVE SortByDateFrom(_, _)
SortByDateFrom(df, i) ==
    IF i = 0 THEN <<>>
    ELSE InsertByDate(df[i], SortByDateFrom(df, i - 1))

SortByDate(df) == SortByDateFrom(df, Len(df))

\* Series.diff(): the first entry is missing
Diff(col, p) == IF p = 1 THEN NaN ELSE FSub(col[p], col[p - 1])

\* (Series.pct_change() * 100).round(2), in hundredths: the first entry is
\* missing; x/0 - 1 is inf for x > 0 and NaN for x = 0
PctChange(col, p) ==
    IF p = 1 THEN NaN
    ELSE LET cur == col[p]  prev == col[p - 1]
         IN  IF ~IsNum(cur) \/ ~IsNum(prev) THEN NaN
             ELSE IF prev.v = 0
                  THEN (IF cur.v = 0 THEN NaN
                        ELSE IF cur.v > 0 THEN Inf ELSE NegInf)
                  ELSE Num(RoundHalfEven((cur.v - prev.v) * 10000, prev.v))

RECURSIVE SumValid(_, _, _)
SumValid(col, lo, hi) ==
    IF lo > hi THEN 0
    ELSE (IF IsNum(col[lo]) THEN col[lo].v ELSE 0) + SumValid(col, lo + 1, hi)

ValidIn(col, lo, hi) == Cardinality({q \in lo..hi : IsNum(col[q])})

\* the mean of the values of col[lo..hi] that are not missing, when there are
\* at least min_periods of them
MeanOfValid(col, lo, hi, valid, min_periods) ==
    IF valid < min_periods THEN FracNaN ELSE Frac(SumValid(col, lo, hi), valid)

WindowStart(p) == IF p - Window + 1 < 1 THEN 1 ELSE p - Window + 1

\* mutant of RollingMean: min_periods=1, the mean of whatever the window holds
RollingMeanMinPeriods1(col, p) ==
    MeanOfValid(col, WindowStart(p), p, ValidIn(col, WindowStart(p), p), 1)

\* Series.rolling(window=7).mean() at position p: the window is the 7
\* positions ending at p, and min_periods defaults to the window, so the
\* mean is missing unless the window holds 7 values that are not missing
RollingMean(col, p) ==
    MeanOfValid(col, WindowStart(p), p, ValidIn(col, WindowStart(p), p), Window)

\* the frame with its six new columns, given the sorted frame, its two
\* cumulative columns and their daily differences
GrowthFrame(sorted, confirmed, deaths, dconf, ddeaths) ==
    [p \in 1..Len(sorted) |->
        [Date                  |-> sorted[p].Date,
         Confirmed             |-> sorted[p].Confirmed,
         Deaths                |-> sorted[p].Deaths,
         Daily_Confirmed       |-> dconf[p],
         Daily_Deaths          |-> ddeaths[p],
         Confirmed_Growth_Rate |-> PctChange(confirmed, p),
         Death_Growth_Rate     |-> PctChange(deaths, p),
         Confirmed_MA_7        |-> RollingMean(dconf, p),
         Deaths_MA_7           |-> RollingMean(ddeaths, p)]]

WithDaily(sorted, confirmed, deaths) ==
    GrowthFrame(sorted, confirmed, deaths,
                [p \in 1..Len(sorted) |-> Diff(confirmed, p)],
                [p \in 1..Len(sorted) |-> Diff(deaths, p)])

WithColumns(sorted) ==
    WithDaily(sorted,
              [p \in 1..Len(sorted) |-> Num(sorted[p].Confirmed)],
              [p \in 1..Len(sorted) |-> sorted[p].Deaths])

calculate_growth_rates(cd) == WithColumns(SortByDate(cd))

MaxLen   == 8    \* days of a country's series
MaxCount == 1    \* cumulative counts of a series are 0..MaxCount

\* the deaths that go with a confirmed count: none of the cases, or all
DeathsOfConfirmed ==
    {f \in [0..MaxCount -> 0..MaxCount] : \A c \in 0..MaxCount : f[c] \in {0, c}}

\* a country's rows of the merged frame on consecutive days, in date order
SeriesOf(len, c, f) ==
    [p \in 1..len |->
        [Date      |-> to_datetime(H2) + p - 1,
         Confirmed |-> c[p],
         Deaths    |-> Num(f[c[p]])]]

InitGrowth ==
    /\ \E len \in 1..MaxLen :
          \E c \in [1..len -> 0..MaxCount], f \in DeathsOfConfirmed :
              country_data = SeriesOf(len, c, f)
    /\ growth = None
    /\ pc = "idle" /\ data = None /\ dirExists = FALSE /\ files = {}
    /\ save_processed = FALSE /\ processed = None /\ merged = None
    /\ adata = None /\ query = None /\ result = None
    /\ responses = None /\ dl_i = 0 /\ attempted = {} /\ written = {}
    /\ dl_pc = "idle"

CalculateGrowthRates ==
    /\ growth = None
    /\ growth' = calculate_growth_rates(country_data)
    /\ UNCHANGED <<country_data, loaderVars, analysisVars, downloadVars>>

NextGrowth == CalculateGrowthRates

SpecGrowth == InitGrowth /\ [][NextGrowth]_vars

(***************************************************************************)
(* Properties of calculate_growth_rates                                    *)
(***************************************************************************)
RECURSIVE SumDaily(_, _, _)
SumDaily(col, lo, hi) ==
    IF lo > hi THEN 0 ELSE (col[lo] - col[lo - 1]) + SumDaily(col, lo + 1, hi)

Computed == growth # None

ConfirmedCol == [p \in 1..Len(country_data) |-> country_data[p].Confirmed]
DeathsCol    == [p \in 1..Len(country_data) |-> country_data[p].Deaths.v]

DailyMatches(conf, dth) ==
    /\ Len(growth) = Len(country_data)
    /\ \A p \in 1..Len(growth) :
           IF p = 1
           THEN /\ growth[p].Daily_Confirmed = NaN
                /\ growth[p].Daily_Deaths = NaN
           ELSE /\ growth[p].Daily_Confirmed = Num(conf[p] - conf[p - 1])
                /\ growth[p].Daily_Deaths = Num(dth[p] - dth[p - 1])

DailyAsClaimed == DailyMatches(ConfirmedCol, DeathsCol)

MovingAveragesMatch(missing, conf, dth) ==
    \A p \in 1..Len(growth) :
        IF p <= missing
        THEN /\ growth[p].Confirmed_MA_7 = FracNaN
             /\ growth[p].Deaths_MA_7 = FracNaN
        ELSE /\ growth[p].Confirmed_MA_7.k = "num"
             /\ growth[p].Deaths_MA_7.k = "num"
             /\ growth[p].Confirmed_MA_7.d = Window
             /\ growth[p].Deaths_MA_7.d = Window
             /\ p > Window =>
                    /\ growth[p].Confirmed_MA_7.n = SumDaily(conf, p - Window + 1, p)
                    /\ growth[p].Deaths_MA_7.n = SumDaily(dth, p - Window + 1, p)

\* the moving averages are missing at the first `missing` positions and are
\* the mean of the 7 daily values ending at the position everywhere else
MovingAveragesFrom(missing) == MovingAveragesMatch(missing, ConfirmedCol, DeathsCol)

\* C7 as stated: Daily_Confirmed and Daily_Deaths have the series' length,
\* entry 0 missing and entry i >= 1 equal to value[i] - value[i-1]; the
\* moving averages have exactly their first 6 entries missing and every
\* entry at position i >= 6 is the mean of the daily values at i-6..i.
C7_FirstSixMovingAveragesMissing ==
    Computed => DailyAsClaimed /\ MovingAveragesFrom(Window - 1)

\* C7 amended: the same daily values; the moving averages have exactly their
\* first 7 entries (positions 0..6) missing, and every entry at position
\* i >= 7 is the mean of the daily values at positions i-6..i.
C7_FirstSevenMovingAveragesMissing ==
    Computed => DailyAsClaimed /\ MovingAveragesFrom(Window)

\* a series of 8 days whose last moving average is a mean that is not zero
C7_Witness ==
    /\ Computed
    /\ Len(growth) = Window + 1
    /\ growth[Window].Confirmed_MA_7 = FracNaN
    /\ growth[Window + 1].Confirmed_MA_7.k = "num"
    /\ growth[Window + 1].Confirmed_MA_7.n # 0
    /\ growth[Window + 1].Deaths_MA_7.n # 0
    /\ \E p \in 2..Len(growth) : growth[p].Daily_Confirmed.v < 0

GrowthRateAsClaimed(rate, col, p) ==
    IF p = 1 \/ col[p - 1] = 0
    THEN rate = NaN
    ELSE rate = Num(RoundHalfEven((col[p] - col[p - 1]) * 10000, col[p - 1]))

GrowthRatesMatch(conf, dth) ==
    \A p \in 1..Len(growth) :
        /\ GrowthRateAsClaimed(growth[p].Confirmed_Growth_Rate, conf, p)
        /\ GrowthRateAsClaimed(growth[p].Death_Growth_Rate, dth, p)
        /\ growth[p].Confirmed_Growth_Rate.k \notin {"inf", "-inf"}
        /\ growth[p].Death_Growth_Rate.k \notin {"inf", "-inf"}

\* C9: Confirmed_Growth_Rate[i] and Death_Growth_Rate[i] are missing when
\* i = 0 or the previous cumulative value is 0, also when the current value
\* is greater than 0, and are (value[i] - value[i-1]) / value[i-1] * 100
\* rounded to 2 decimals otherwise; they are never infinite.
C9_GrowthRateMissingAfterZero ==
    Computed => GrowthRatesMatch(ConfirmedCol, DeathsCol)

(***************************************************************************)
(* CovidDataLoader.download_data                                           *)
(***************************************************************************)
\* the files dictionary, in its order
DownloadFiles == <<"confirmed", "deaths", "recovered">>

\* what requests.get(url) does: a response with a status code, or an
\* exception (no connection, a timeout)
Outcomes == {"200", "404", "500", "ConnectionError"}

InitDownload ==
    /\ responses \in [1..Len(DownloadFiles) -> Outcomes]
    /\ dl_i = 1
    /\ attempted = {}
    /\ written = {}
    /\ dl_pc = "loop"
    /\ pc = "idle" /\ data = None /\ dirExists = FALSE /\ files = {}
    /\ save_processed = FALSE /\ processed = None /\ merged = None
    /\ adata = None /\ query = None /\ result = None
    /\ country_data = None /\ growth = None

\* one turn of the loop of download_data: the request is not guarded, so an
\* exception it raises leaves the function
DownloadStep ==
    /\ dl_pc = "loop"
    /\ attempted' = attempted \cup {DownloadFiles[dl_i]}
    /\ IF responses[dl_i] = "ConnectionError"
       THEN /\ dl_pc' = "raised"
            /\ UNCHANGED <<written, dl_i>>
       ELSE /\ written' = IF responses[dl_i] = "200"
                          THEN written \cup {DownloadFiles[dl_i]}
                          ELSE written
            /\ dl_i' = dl_i + 1
            /\ dl_pc' = IF dl_i = Len(DownloadFiles) THEN "returned" ELSE "loop"
    /\ UNCHANGED <<responses, loaderVars, analysisVars, growthVars>>

NextDownload == DownloadStep

SpecDownload == InitDownload /\ [][NextDownload]_vars

\* C8: in download_data a file that cannot be retrieved, by a non-success
\* response or by an error the request raises, does not stop the others:
\* when the call is over all three fetches were attempted and every file
\* whose fetch succeeded is written.
C8_EveryFetchAttempted ==
    dl_pc \in {"returned", "raised"} =>
        /\ attempted = {DownloadFiles[i] : i \in 1..Len(DownloadFiles)}
        /\ written = {DownloadFiles[i] : i \in {j \in 1..Len(DownloadFiles) :
                                                  responses[j] = "200"}}

====
